---- MODULE Spec2Model ----
(***************************************************************************)
(* Derivation chains of the uv resolver                                    *)
(* (crates/uv-resolver/src/resolver/derivation.rs).                        *)
(*                                                                         *)
(* Three computations are modelled, each under its own specification:      *)
(*   SpecGraph   DerivationChain::from_graph, the breadth-first search of   *)
(*               the resolution graph along incoming edges;                *)
(*   SpecState   DerivationChain::from_state with its inner recursive       *)
(*               fill_complete_path over the PubGrub incompatibilities;    *)
(*   SpecRender  impl Display for DerivationChain.                          *)
(* The variables of the two computations a specification does not run stay  *)
(* at their idle values.                                                    *)
(***************************************************************************)
EXTENDS Integers, Sequences, FiniteSets, TLC

VARIABLES
    \* ---- from_graph ----
    dist,        \* graph.petgraph[n] of a Dist node: the distribution it carries
    installable, \* whether the node's dist is ResolvedDist::Installable
    edges,       \* edges of graph.petgraph, <<dependent, dependency>>
    target,      \* the DistRef passed to from_graph
    gpc,         \* position in from_graph: "find", "bfs" or "done"
    queue,       \* the VecDeque of (node, path); trail is the history of nodes behind path
    seen,        \* the FxHashSet of node indices
    gresult,     \* "running", "panic", "none" or "some"
    gchain,      \* the chain inside Some(..)
    rootItem,    \* history: the queue item with which Root was dequeued
    expanded,    \* history: how often each node was expanded
    enqueued,    \* history: number of push_back calls
    dequeued,    \* history: number of pop_front calls that returned an item
    \* ---- from_state ----
    store,       \* state.incompatibility_store
    solution,    \* the snapshot state.partial_solution.extract_solution() returns
    package,     \* the queried package
    version,     \* the queried version
    spc,         \* position in from_state: "begin", "search" or "done"
    stack,       \* the active calls of fill_complete_path, innermost last
    ret,         \* value just returned by a call: "none" (no return pending), "true", "false"
    path,        \* the path vector of fill_complete_path
    sresult,     \* "running", "overflow", "none" or "some"
    schain,      \* the chain inside Some(..)
    \* ---- Display ----
    steps,       \* self.0 of the chain being rendered
    idx,         \* number of steps written so far
    out,         \* the characters written to the formatter
    rpc          \* "fmt" or "done"

gvars == <<dist, installable, edges, target, gpc, queue, seen, gresult, gchain,
           rootItem, expanded, enqueued, dequeued>>
svars == <<store, solution, package, version, spc, stack, ret, path,
           sresult, schain>>
rvars == <<steps, idx, out, rpc>>
vars == <<gvars, svars, rvars>>

-----------------------------------------------------------------------------
(* Bounds *)

\* Largest number of edges of an input graph.
MaxEdges == 4
\* Largest number of records in the incompatibility store.
MaxStore == 3
\* Largest number of steps of a rendered chain.
MaxChain == 3

-----------------------------------------------------------------------------
(* Small helpers *)

Last(s) == s[Len(s)]
PopLast(s) == SubSeq(s, 1, Len(s) - 1)
Reverse(s) == [i \in 1..Len(s) |-> s[Len(s) + 1 - i]]
Min(S) == CHOOSE x \in S : \A y \in S : x <= y
SeqsUpTo(S, n) == UNION {[1..k -> S] : k \in 0..n}
\* All the orders in which the elements of S can be enumerated.
Orders(S) == {s \in [1..Cardinality(S) -> S] : \A i, j \in 1..Cardinality(S) : s[i] = s[j] => i = j}

-----------------------------------------------------------------------------
(* The resolution graph *)

Root == 0
DistNodes == {1, 2, 3}
Nodes == {Root} \cup DistNodes

\* The distributions a node can carry, with the name and version of each.
Dists == {"A", "B", "C"}
NameOf == [d \in Dists |-> d]
VersionOf == [d \in Dists |-> CASE d = "A" -> 1 [] d = "B" -> 2 [] d = "C" -> 3]

\* DerivationStep::new(name, version)
NewStep(name, ver) == [name |-> name, version |-> ver]
\* The step of a Dist node: AnnotatedDist { name, version, .. }
StepOf(n) == NewStep(NameOf[dist[n]], VersionOf[dist[n]])

\* Edges run from a dependent to its dependency; nothing depends on Root.
PossibleEdges == Nodes \X DistNodes

\* neighbors_directed(node, Direction::Incoming), as a set
Incoming(n) == {m \in Nodes : <<m, n>> \in edges}

-----------------------------------------------------------------------------
(* DerivationChain::from_graph *)

\* A closure that takes any distribution equal to the target, installable or not.
IsTargetAnyKind(n) == n \in DistNodes /\ dist[n] = target

\* The closure of node_indices().find: the node carries an installable
\* distribution equal to the target.
IsTarget(n) == n \in DistNodes /\ installable[n] /\ dist[n] = target

\* node_indices().find(..): the first matching node in index order, if any.
Found == {n \in Nodes : IsTarget(n)}
TargetNode == Min(Found)

\* A search that takes the newest item instead of the oldest.
PopBack(q) == [item |-> Last(q), rest |-> PopLast(q)]

\* queue.pop_front(): the item taken, and the queue left.
PopFront(q) == [item |-> Head(q), rest |-> Tail(q)]

\* A search that never finds a node in the seen-set.
NeverSeen(s, n) == FALSE

\* !seen.insert(node): the node was in the set already.
AlreadySeen(s, n) == n \in s

\* A finish that forgets path.reverse().
FinishUnreversed(p) == PopLast(p)
\* A finish that forgets path.pop().
FinishUnpopped(p) == Reverse(p)

\* path.reverse(); path.pop(); Self::from_iter(path)
FinishPath(p) == PopLast(Reverse(p))

\* The items pushed for the incoming neighbours, enumerated in order ns.
Pushed(ns, p, t) == [i \in 1..Len(ns) |-> [node |-> ns[i], path |-> p, trail |-> t]]

GIdle ==
    /\ dist = [n \in DistNodes |-> "A"]
    /\ installable = [n \in DistNodes |-> TRUE]
    /\ edges = {}
    /\ target = "A"
    /\ gpc = "idle"
    /\ queue = <<>>
    /\ seen = {}
    /\ gresult = "idle"
    /\ gchain = <<>>
    /\ rootItem = <<>>
    /\ expanded = [n \in Nodes |-> 0]
    /\ enqueued = 0
    /\ dequeued = 0

\* The labellings of the Dist nodes, up to renaming of the distributions: each
\* node carries the distribution of an earlier node or the first unused one.
DistOrder == <<"A", "B", "C">>
Rank(d) == CHOOSE i \in 1..Len(DistOrder) : DistOrder[i] = d
Labellings ==
    {l \in [DistNodes -> Dists] :
        \A n \in DistNodes : Rank(l[n]) <= 1 + Cardinality({l[m] : m \in {k \in DistNodes : k < n}})}

\* Any graph over the nodes with at most MaxEdges edges, any labelling of its
\* Dist nodes, any target reference.
InitGraphVars ==
    /\ dist \in Labellings
    /\ installable \in [DistNodes -> BOOLEAN]
    /\ edges \in {E \in SUBSET PossibleEdges : Cardinality(E) <= MaxEdges}
    /\ target \in Dists
    /\ gpc = "find"
    /\ queue = <<>>
    /\ seen = {}
    /\ gresult = "running"
    /\ gchain = <<>>
    /\ rootItem = <<>>
    /\ expanded = [n \in Nodes |-> 0]
    /\ enqueued = 0
    /\ dequeued = 0

\* Lines 28-41, no node matches: .expect(..) panics.
FindPanics ==
    /\ gpc = "find"
    /\ Found = {}
    /\ gpc' = "done"
    /\ gresult' = "panic"
    /\ UNCHANGED <<dist, installable, edges, target, queue, seen, gchain, rootItem,
                   expanded, enqueued, dequeued>>

\* Lines 28-47: the target node is found and pushed with an empty path.
FindTarget ==
    /\ gpc = "find"
    /\ Found # {}
    /\ queue' = <<[node |-> TargetNode, path |-> <<>>, trail |-> <<>>]>>
    /\ enqueued' = enqueued + 1
    /\ seen' = {}
    /\ gpc' = "bfs"
    /\ UNCHANGED <<dist, installable, edges, target, gresult, gchain, rootItem,
                   expanded, dequeued>>

\* Lines 48-51: the dequeued node was seen before: continue.
SkipSeen ==
    /\ gpc = "bfs"
    /\ queue # <<>>
    /\ LET it == PopFront(queue).item IN
        /\ AlreadySeen(seen, it.node)
        /\ queue' = PopFront(queue).rest
        /\ dequeued' = dequeued + 1
    /\ UNCHANGED <<dist, installable, edges, target, gpc, seen, gresult, gchain,
                   rootItem, expanded, enqueued>>

\* Lines 48-57: Root is dequeued: the reversed path without its last step is returned.
ReachRoot ==
    /\ gpc = "bfs"
    /\ queue # <<>>
    /\ LET it == PopFront(queue).item IN
        /\ ~AlreadySeen(seen, it.node)
        /\ it.node = Root
        /\ seen' = seen \cup {it.node}
        /\ queue' = PopFront(queue).rest
        /\ dequeued' = dequeued + 1
        /\ rootItem' = it
        /\ gchain' = FinishPath(it.path)
        /\ gresult' = "some"
        /\ gpc' = "done"
    /\ UNCHANGED <<dist, installable, edges, target, expanded, enqueued>>

\* Lines 48-63: a Dist node is dequeued: its step is appended and every
\* incoming neighbour is pushed with a copy of the path, in the order the graph
\* enumerates them.
Expand ==
    /\ gpc = "bfs"
    /\ queue # <<>>
    /\ LET it == PopFront(queue).item IN
        /\ ~AlreadySeen(seen, it.node)
        /\ it.node # Root
        /\ seen' = seen \cup {it.node}
        /\ dequeued' = dequeued + 1
        /\ expanded' = [expanded EXCEPT ![it.node] = @ + 1]
        /\ \E ns \in Orders(Incoming(it.node)) :
            /\ queue' = PopFront(queue).rest \o
                            Pushed(ns, Append(it.path, StepOf(it.node)), Append(it.trail, it.node))
            /\ enqueued' = enqueued + Len(ns)
    /\ UNCHANGED <<dist, installable, edges, target, gpc, gresult, gchain, rootItem>>

\* An exhausted search that answers with an empty chain.
ExhaustedEmptyChain ==
    /\ gpc = "bfs"
    /\ queue = <<>>
    /\ gresult' = "some"
    /\ gchain' = <<>>
    /\ gpc' = "done"
    /\ UNCHANGED <<dist, installable, edges, target, queue, seen, rootItem,
                   expanded, enqueued, dequeued>>

\* Lines 48, 67: the queue is empty: None.
Exhausted ==
    /\ gpc = "bfs"
    /\ queue = <<>>
    /\ gresult' = "none"
    /\ gpc' = "done"
    /\ UNCHANGED <<dist, installable, edges, target, queue, seen, gchain, rootItem,
                   expanded, enqueued, dequeued>>

NextGraph ==
    \/ FindPanics /\ UNCHANGED <<svars, rvars>>
    \/ FindTarget /\ UNCHANGED <<svars, rvars>>
    \/ SkipSeen /\ UNCHANGED <<svars, rvars>>
    \/ ReachRoot /\ UNCHANGED <<svars, rvars>>
    \/ Expand /\ UNCHANGED <<svars, rvars>>
    \/ Exhausted /\ UNCHANGED <<svars, rvars>>


-----------------------------------------------------------------------------
(* Properties of from_graph *)

\* The nodes that carry an installable distribution equal to the target, and
\* the one from_graph starts at.
Carriers == {n \in DistNodes : installable[n] /\ dist[n] = target}
Start == Min(Carriers)

\* The ancestries of the start node: the Dist nodes of a path of edges from
\* Root to it, in root-to-target order, the start node last. A shortest one
\* repeats no node, so none is longer than the number of Dist nodes.
IsAncestry(p) ==
    /\ Len(p) >= 1
    /\ <<Root, p[1]>> \in edges
    /\ \A i \in 1..(Len(p) - 1) : <<p[i], p[i + 1]>> \in edges
    /\ p[Len(p)] = Start
Ancestries == {p \in SeqsUpTo(DistNodes, Cardinality(DistNodes)) : IsAncestry(p)}
\* Number of nodes on an ancestry path, Root included.
PathNodes(p) == Len(p) + 1

GraphDone == gpc = "done"

\* C1: when the target is an installable Dist node that Root reaches, from_graph
\* returns Some(chain), the chain is as long as a shortest ancestry path has
\* nodes, minus 2, no ancestry path is shorter, and that length is not negative.
C1_ShortestLength ==
    (GraphDone /\ Carriers # {} /\ Ancestries # {}) =>
        /\ gresult = "some"
        /\ \E p \in Ancestries :
            /\ Len(gchain) = PathNodes(p) - 2
            /\ PathNodes(p) - 2 >= 0
            /\ \A q \in Ancestries : PathNodes(q) >= PathNodes(p)

\* A chain of one step was returned although the target has a longer ancestry too.
C1_Witness ==
    /\ GraphDone /\ gresult = "some" /\ Len(gchain) = 1
    /\ \E q \in Ancestries : PathNodes(q) = 4

\* The nodes behind the returned steps, in root-to-target order: the nodes of
\* the path Root was dequeued with, backwards, without the first of them.
ChainNodes ==
    [i \in 1..(Len(rootItem.trail) - 1) |-> rootItem.trail[Len(rootItem.trail) + 1 - i]]

\* C2: a returned chain is in root-to-target order and is an ancestry of the
\* graph: Root has an edge to the node of the first step, each step's node to
\* the next one's, the last one's to the target node. The path Root was
\* dequeued with starts with the target's step, and neither Root nor the target
\* node is among the nodes of the chain.
C2_RealAncestry ==
    (GraphDone /\ gresult = "some") =>
        /\ rootItem.path # <<>>
        /\ rootItem.trail[1] = Start
        /\ rootItem.path[1] = StepOf(Start)
        /\ Len(gchain) = Len(rootItem.path) - 1
        /\ Len(gchain) = Len(ChainNodes)
        /\ \A i \in 1..Len(gchain) : gchain[i] = StepOf(ChainNodes[i])
        /\ IsAncestry(Append(ChainNodes, Start))
        /\ \A i \in 1..Len(ChainNodes) : ChainNodes[i] \notin {Root, Start}

\* Root -> 1 -> 2 -> 3 with three different distributions; the query for the
\* last returns the first two.
C2_Witness ==
    /\ GraphDone /\ gresult = "some"
    /\ edges = {<<Root, 1>>, <<1, 2>>, <<2, 3>>}
    /\ Start = 3
    /\ gchain = <<StepOf(1), StepOf(2)>>
    /\ StepOf(1) # StepOf(2) /\ StepOf(2) # StepOf(3) /\ StepOf(1) # StepOf(3)

\* C3: when Root has an edge to the target node the result is Some of the
\* empty chain, whatever else the target depends on and in whatever order its
\* incoming edges are enumerated.
C3_DirectChild ==
    (GraphDone /\ Carriers # {} /\ <<Root, Start>> \in edges) =>
        (gresult = "some" /\ gchain = <<>>)

\* The target is a direct child of Root, has a longer ancestry as well, and
\* Root was not the first of its neighbours to be enumerated.
C3_Witness ==
    /\ GraphDone /\ gresult = "some" /\ gchain = <<>>
    /\ <<Root, Start>> \in edges
    /\ \E q \in Ancestries : PathNodes(q) >= 3
    /\ dequeued >= 3

\* C7: when no node carries an installable distribution equal to the target,
\* from_graph panics before the search starts and returns nothing.
C7_AbsentTargetPanics ==
    (Carriers = {} /\ gpc # "find") =>
        /\ gresult = "panic"
        /\ gpc = "done"
        /\ enqueued = 0 /\ dequeued = 0 /\ queue = <<>> /\ seen = {}

\* The panic of a target that is in the graph only as an installed distribution.
C7_Witness ==
    /\ gresult = "panic"
    /\ \E n \in DistNodes : dist[n] = target /\ ~installable[n]

\* C8 as claimed: a target with no path to Root makes from_graph panic.
C8_NoPathPanics ==
    (GraphDone /\ Carriers # {} /\ Ancestries = {}) => gresult = "panic"

\* C8 as amended: a target with no path to Root makes from_graph return None,
\* after a search that never dequeued Root; it neither panics nor returns a chain.
C8_NoPathNone ==
    (GraphDone /\ Carriers # {} /\ Ancestries = {}) =>
        (gresult = "none" /\ Root \notin seen /\ queue = <<>>)

\* None for a target that other nodes depend on, none of them reached by Root.
C8_Witness ==
    /\ GraphDone /\ gresult = "none"
    /\ Incoming(Start) # {}
    /\ Cardinality(seen) >= 2

\* C9: the search ends on every graph: no node is expanded twice, at most one
\* item per edge is pushed besides the first, every iteration takes one item
\* off the queue, and the search is never stuck before it has a result.
C9_BoundedSearch ==
    /\ \A n \in Nodes : expanded[n] <= 1
    /\ enqueued <= 1 + Cardinality(edges)
    /\ Len(queue) = enqueued - dequeued
    /\ dequeued <= 1 + Cardinality(edges)
    /\ gpc = "bfs" => seen \subseteq Nodes /\ Cardinality(seen) <= dequeued
    /\ gpc # "done" => ENABLED NextGraph

\* A graph with a cycle and the same distribution on two nodes: both nodes were
\* expanded, and an item was dropped because its node had been seen.
C9_Witness ==
    /\ GraphDone
    /\ \E m, n \in DistNodes :
        /\ m # n /\ dist[m] = dist[n]
        /\ expanded[m] = 1 /\ expanded[n] = 1
        /\ <<m, n>> \in edges /\ <<n, m>> \in edges
    /\ dequeued > Cardinality(seen)

-----------------------------------------------------------------------------
(* The solver state *)

\* Root, two packages with a name, and a virtual package of the solver, which
\* has none. A solver state is about Root and two of the others.
Packages == {"root", "a", "b", "python"}
Universes == {{"root", "a", "b"}, {"root", "a", "python"}}
Versions == {1, 2}
\* The version ranges a record can carry, as the sets of versions they contain.
Ranges == {{1}, {2}}

\* A test that takes no package for Root.
NeverRoot(p) == FALSE

\* PubGrubPackage::is_root
IsRoot(p) == p = "root"
\* PubGrubPackage::name: Root and the virtual package have none.
HasName(p) == p \notin {"root", "python"}
PackageName(p) == p

\* Kind::FromDependencyOf(p1, v1, p2, v2): p1 within v1 depends on p2 within v2.
\* A package does not depend on itself, nothing depends on Root, and Root has
\* the one version it is decided at.
FromDependencyOf ==
    {[kind |-> "FromDependencyOf", p1 |-> a, v1 |-> r1, p2 |-> b, v2 |-> r2] :
        a \in Packages, b \in Packages \ {"root"}, r1 \in Ranges, r2 \in Ranges}
DependencyRecords == {r \in FromDependencyOf : r.p1 # r.p2 /\ (IsRoot(r.p1) => r.v1 = {1})}
\* An incompatibility of another kind, about one package.
OtherRecords == {[kind |-> "NoVersions", p1 |-> "a", v1 |-> {2}]}
Records == DependencyRecords \cup OtherRecords
\* The packages an incompatibility mentions.
Mentions(rec) == IF rec.kind = "FromDependencyOf" THEN {rec.p1, rec.p2} ELSE {rec.p1}

\* The stores about the packages U: up to MaxStore incompatibilities, each held once.
StoresOf(U) ==
    {st \in SeqsUpTo({r \in Records : Mentions(r) \subseteq U}, MaxStore) :
        \A i, j \in 1..Len(st) : st[i] = st[j] => i = j}

\* The index of a package read from its last record to its first.
IncompatsReversed(p) == Reverse(SelectSeq([i \in 1..Len(store) |-> i], LAMBDA i : p \in Mentions(store[i])))

\* state.incompatibilities.get(package): the ids of the incompatibilities that
\* mention the package, in the order they were added; empty stands for None.
Incompats(p) ==
    SelectSeq([i \in 1..Len(store) |-> i], LAMBDA i : p \in Mentions(store[i]))

\* A range test that every version passes.
ContainsAny(range, v) == TRUE

\* Ranges::contains
Contains(range, v) == v \in range

\* A test that forgets p2 == package.
IsCandidateEitherSide(rec, p, v) ==
    /\ rec.kind = "FromDependencyOf"
    /\ v \in rec.v2

\* Lines 104-105: the record is a dependency record whose dependency side is
\* the package, within a range that contains the version.
IsCandidate(rec, p, v) ==
    /\ rec.kind = "FromDependencyOf"
    /\ rec.p2 = p
    /\ Contains(rec.v2, v)

\* solution.get(p1) is Some
Selected(p) == p \in DOMAIN solution

\* A call of fill_complete_path(package, version, ..): i is the position the
\* loop over incompats has reached, entry the path as it is when the call is made.
Frame(p, v, e) == [package |-> p, version |-> v, i |-> 1, entry |-> e]
\* The innermost call.
Top == Last(stack)

\* The recursion has no depth limit of its own and the thread's stack is finite.
\* What a call does depends on its package and version alone, so a call chain
\* that holds the same pair twice repeats without end; a chain deeper than
\* StackLimit holds a pair twice, and the run ends as a stack overflow.
StackLimit == Cardinality(Packages \ {"root"}) * Cardinality(Versions) + 1

\* Line 109: the tuple pushed on the path.
PathEntry(rec) ==
    [p1 |-> rec.p1, v1 |-> rec.v1, p2 |-> rec.p2, v2 |-> rec.v2, version |-> solution[rec.p1]]

\* A collection that makes a step of every entry, named or not.
MapAll(p) == [i \in 1..Len(p) |-> NewStep(p[i].p1, p[i].version)]

\* Lines 135-143: the path reversed, the entries whose p1 has a name turned
\* into steps, the others dropped.
RECURSIVE FilterMap(_)
FilterMap(p) ==
    IF p = <<>> THEN <<>>
    ELSE IF HasName(Head(p).p1)
         THEN <<NewStep(PackageName(Head(p).p1), Head(p).version)>> \o FilterMap(Tail(p))
         ELSE FilterMap(Tail(p))
Collect(p) == FilterMap(Reverse(p))

\* The snapshots about the packages U: Root is decided, any other package is
\* decided or not.
SolutionsOf(U) ==
    UNION {[S \cup {"root"} -> {1}] : S \in SUBSET (U \ {"root"})}

InitStateVars ==
    /\ \E U \in Universes :
        /\ store \in StoresOf(U)
        /\ solution \in SolutionsOf(U)
        /\ package \in U
    /\ version \in Versions
    /\ spc = "begin"
    /\ stack = <<>>
    /\ ret = "none"
    /\ path = <<>>
    /\ sresult = "running"
    /\ schain = <<>>

\* Lines 126-129: the first call of fill_complete_path, with an empty path.
Begin ==
    /\ spc = "begin"
    /\ path' = <<>>
    /\ stack' = <<Frame(package, version, <<>>)>>
    /\ spc' = "search"
    /\ UNCHANGED <<store, solution, package, version, ret, sresult, schain>>

Searching == spc = "search" /\ ret = "none" /\ stack # <<>>

\* Lines 94-96: the package of the call is Root: return true.
RootReached ==
    /\ Searching
    /\ IsRoot(Top.package)
    /\ stack' = PopLast(stack)
    /\ ret' = "true"
    /\ UNCHANGED <<store, solution, package, version, spc, path, sresult, schain>>

\* The record the loop of the innermost call is at.
Current == store[Incompats(Top.package)[Top.i]]
InLoop == Searching /\ ~IsRoot(Top.package) /\ Top.i <= Len(Incompats(Top.package))
Descends == IsCandidate(Current, Top.package, Top.version) /\ Selected(Current.p1)

\* Lines 100-107: the record is no candidate, or its p1 is not selected: next record.
SkipRecord ==
    /\ InLoop
    /\ ~Descends
    /\ stack' = [stack EXCEPT ![Len(stack)].i = @ + 1]
    /\ UNCHANGED <<store, solution, package, version, spc, ret, path, sresult, schain>>

\* Lines 104-112: the record is a candidate with a selected p1: push it on the
\* path and call fill_complete_path for p1 at its selected version.
Descend ==
    /\ InLoop
    /\ Descends
    /\ Len(stack) < StackLimit
    /\ path' = Append(path, PathEntry(Current))
    /\ stack' = Append(stack, Frame(Current.p1, solution[Current.p1], Append(path, PathEntry(Current))))
    /\ UNCHANGED <<store, solution, package, version, spc, ret, sresult, schain>>

\* The same call when the stack is full: the thread overflows its stack.
Overflow ==
    /\ InLoop
    /\ Descends
    /\ Len(stack) >= StackLimit
    /\ path' = Append(path, PathEntry(Current))
    /\ sresult' = "overflow"
    /\ spc' = "done"
    /\ UNCHANGED <<store, solution, package, version, stack, ret, schain>>

\* Lines 99-123: the loop is over (or the index has no entry): return false.
ReturnFalse ==
    /\ Searching
    /\ ~IsRoot(Top.package)
    /\ Top.i > Len(Incompats(Top.package))
    /\ stack' = PopLast(stack)
    /\ ret' = "false"
    /\ UNCHANGED <<store, solution, package, version, spc, path, sresult, schain>>

\* A return from a failed call that leaves the entry of the call on the path.
BacktrackNoPop ==
    /\ spc = "search"
    /\ ret = "false"
    /\ stack # <<>>
    /\ stack' = [stack EXCEPT ![Len(stack)].i = @ + 1]
    /\ ret' = "none"
    /\ UNCHANGED <<store, solution, package, version, spc, path, sresult, schain>>

\* Lines 112-117: the recursive call returned false: pop the path, next record.
Backtrack ==
    /\ spc = "search"
    /\ ret = "false"
    /\ stack # <<>>
    /\ path' = PopLast(path)
    /\ stack' = [stack EXCEPT ![Len(stack)].i = @ + 1]
    /\ ret' = "none"
    /\ UNCHANGED <<store, solution, package, version, spc, sresult, schain>>

\* Lines 112-114: the recursive call returned true: return true.
Propagate ==
    /\ spc = "search"
    /\ ret = "true"
    /\ stack # <<>>
    /\ stack' = PopLast(stack)
    /\ UNCHANGED <<store, solution, package, version, spc, ret, path, sresult, schain>>

\* Lines 129-131: the first call returned false: None.
ReturnNone ==
    /\ spc = "search"
    /\ ret = "false"
    /\ stack = <<>>
    /\ sresult' = "none"
    /\ spc' = "done"
    /\ UNCHANGED <<store, solution, package, version, stack, ret, path, schain>>

\* Lines 129-143: the first call returned true: Some of the collected chain.
ReturnSome ==
    /\ spc = "search"
    /\ ret = "true"
    /\ stack = <<>>
    /\ schain' = Collect(path)
    /\ sresult' = "some"
    /\ spc' = "done"
    /\ UNCHANGED <<store, solution, package, version, stack, ret, path>>

NextState ==
    \/ Begin /\ UNCHANGED <<gvars, rvars>>
    \/ RootReached /\ UNCHANGED <<gvars, rvars>>
    \/ SkipRecord /\ UNCHANGED <<gvars, rvars>>
    \/ Descend /\ UNCHANGED <<gvars, rvars>>
    \/ Overflow /\ UNCHANGED <<gvars, rvars>>
    \/ ReturnFalse /\ UNCHANGED <<gvars, rvars>>
    \/ Backtrack /\ UNCHANGED <<gvars, rvars>>
    \/ Propagate /\ UNCHANGED <<gvars, rvars>>
    \/ ReturnNone /\ UNCHANGED <<gvars, rvars>>
    \/ ReturnSome /\ UNCHANGED <<gvars, rvars>>

-----------------------------------------------------------------------------
(* Properties of from_state *)

StateDone == spc = "done"

\* The dependency records of the store.
Deps == {store[i] : i \in {j \in 1..Len(store) : store[j].kind = "FromDependencyOf"}}

\* The packages that can require package p at version v: the p1 of a dependency
\* record about p whose v2 holds v, when p1 has a selected version.
Requirers(p, v) ==
    {r.p1 : r \in {d \in Deps : d.p2 = p /\ v \in d.v2 /\ d.p1 \in DOMAIN solution}}

\* The packages on some chain of requirers from the queried package, each
\* after the first taken at its selected version.
RECURSIVE Closure(_)
Closure(S) ==
    LET T == S \cup UNION {Requirers(p, solution[p]) : p \in S \ {"root"}}
    IN IF T = S THEN S ELSE Closure(T)
Ancestors ==
    IF package = "root" THEN {"root"} ELSE Closure(Requirers(package, version))
ChainExists == "root" \in Ancestors

\* C4 as claimed: when a chain of requirers leads from the queried package to
\* Root, from_state returns Some(chain).
C4_FindsSomeChain ==
    (StateDone /\ ChainExists) => sresult = "some"

\* C5: the path behind a Some result is justified link by link: each entry is
\* a dependency record of the store; the first is about the queried package and
\* its v2 holds the queried version; each later one is about the requirer before
\* it and its v2 holds that requirer's selected version; every requirer is
\* selected and its entry and step carry the selected version; the last
\* requirer is Root.
C5_PathJustified ==
    (StateDone /\ sresult = "some") =>
        /\ \A i \in 1..Len(path) :
            /\ \E d \in Deps :
                d.p1 = path[i].p1 /\ d.v1 = path[i].v1 /\ d.p2 = path[i].p2 /\ d.v2 = path[i].v2
            /\ path[i].p1 \in DOMAIN solution
            /\ path[i].version = solution[path[i].p1]
            /\ path[i].p2 = (IF i = 1 THEN package ELSE path[i - 1].p1)
            /\ (IF i = 1 THEN version ELSE solution[path[i - 1].p1]) \in path[i].v2
        /\ path # <<>> => path[Len(path)].p1 = "root"
        /\ path = <<>> => package = "root"
        /\ \A i \in 1..Len(schain) : schain[i].version = solution[schain[i].name]

\* A Some result over two requirers besides Root, found although the store
\* holds a record about the queried package whose v2 does not hold the version.
C5_Witness ==
    /\ StateDone /\ sresult = "some"
    /\ Len(path) = 3
    /\ \E d \in Deps : d.p2 = package /\ version \notin d.v2

\* No dependency record has the queried package as its dependency side with a
\* v2 that holds the queried version.
NoRecordAbout == \A d \in Deps : ~(d.p2 = package /\ version \in d.v2)

\* C6 as claimed: for every package and version, when no dependency record is
\* about the package within the version, the result is None.
C6_NoRecordNone ==
    (StateDone /\ NoRecordAbout) => sresult = "none"

\* C6 as amended: the same for every package other than Root.
C6_NoRecordNoneUnlessRoot ==
    (StateDone /\ package # "root" /\ NoRecordAbout) => sresult = "none"

\* None for a package the store mentions: as the requiring side of one record,
\* and as the dependency side of another outside the queried version.
C6_Witness ==
    /\ StateDone /\ sresult = "none" /\ package # "root"
    /\ NoRecordAbout
    /\ \E d \in Deps : d.p1 = package
    /\ \E d \in Deps : d.p2 = package /\ d.p1 \in DOMAIN solution

\* C11 as claimed: on every store the search ends, with Some or with None,
\* whether or not the dependency records among selected packages form a cycle.
C11_EndsWithSomeOrNone ==
    StateDone => sresult \in {"some", "none"}

\* C12 as claimed: every link of a returned chain holds in the selected
\* solution: the version selected for the requirer p1 lies in the v1 range of
\* the record used for the link.
C12_RequirerWithinV1 ==
    (StateDone /\ sresult = "some") =>
        \A i \in 1..Len(path) : solution[path[i].p1] \in path[i].v1

\* C16: a query for the Root package succeeds at once with the empty path: the
\* result is Some of the empty chain for every version, store and snapshot, and
\* no record of the index is examined and no call is made below the first.
C16_RootQuery ==
    package = "root" =>
        /\ path = <<>>
        /\ Len(stack) <= 1
        /\ \A k \in 1..Len(stack) : stack[k].i = 1 /\ stack[k].package = "root"
        /\ ret # "false"
        /\ StateDone => (sresult = "some" /\ schain = <<>>)

\* Some of the empty chain for Root at version 2, with a full store that has a
\* record naming Root as requirer, and a snapshot without the other packages.
C16_Witness ==
    /\ StateDone /\ package = "root" /\ version = 2
    /\ sresult = "some" /\ schain = <<>>
    /\ Len(store) = MaxStore
    /\ \E d \in Deps : d.p1 = "root"
    /\ DOMAIN solution = {"root"}

\* The depth-first search in the order of the store, written as a function of
\* the query: Branch(p, v, i, fuel) is the outcome of the call for p at v from
\* its record i on, with fuel calls left on the stack. The outcome is the
\* entries pushed by the first branch that reaches Root ("true"), or "false"
\* when no record from i on leads to Root, or "deep" when a branch before the
\* first one that reaches Root needs more calls than the stack holds.
RECURSIVE Branch(_, _, _, _)
Branch(p, v, i, fuel) ==
    IF p = "root" THEN [ret |-> "true", path |-> <<>>]
    ELSE IF i > Len(store) THEN [ret |-> "false", path |-> <<>>]
    ELSE IF /\ store[i].kind = "FromDependencyOf"
            /\ store[i].p2 = p
            /\ v \in store[i].v2
            /\ store[i].p1 \in DOMAIN solution
         THEN IF fuel = 1 THEN [ret |-> "deep", path |-> <<>>]
              ELSE LET below == Branch(store[i].p1, solution[store[i].p1], 1, fuel - 1)
                       entry == [p1 |-> store[i].p1, v1 |-> store[i].v1,
                                 p2 |-> store[i].p2, v2 |-> store[i].v2,
                                 version |-> solution[store[i].p1]]
                   IN  IF below.ret = "true"
                       THEN [ret |-> "true", path |-> <<entry>> \o below.path]
                       ELSE IF below.ret = "deep" THEN below
                       ELSE Branch(p, v, i + 1, fuel)
         ELSE Branch(p, v, i + 1, fuel)
FirstBranch == Branch(package, version, 1, StackLimit)

\* The search is over with a success: nothing but returns is left.
Succeeded == spc = "search" /\ ret = "true"

\* C13: the candidates of a call are tried in the order of the index and the
\* search stops at the first success. A returned chain is made of the path of
\* the first branch that reaches Root in the depth-first traversal in index
\* order; from one step to the next the position of a call in its index stays
\* or moves to the next record; and once a call has returned true no call
\* moves to another record, no call is made and the path is not changed.
C13_FirstSuccess ==
    /\ [](StateDone =>
            /\ sresult = "some" <=> FirstBranch.ret = "true"
            /\ sresult = "some" => path = FirstBranch.path)
    /\ [][/\ \A k \in 1..Min({Len(stack), Len(stack')}) :
                /\ stack'[k].package = stack[k].package
                /\ stack'[k].version = stack[k].version
                /\ stack'[k].i \in {stack[k].i, stack[k].i + 1}
                /\ stack'[k].i # stack[k].i => k = Len(stack')
          /\ Len(stack') > Len(stack) => stack'[Len(stack')].i = 1
          /\ Succeeded =>
                /\ path' = path
                /\ ret' = "true"
                /\ IF stack = <<>> THEN sresult' = "some" ELSE stack' = PopLast(stack)]_vars

\* The first record about the queried package leads to Root in two steps and
\* a later record is a direct requirement of Root: the longer path is returned.
C13_Witness ==
    /\ StateDone /\ sresult = "some"
    /\ Len(path) = 2
    /\ \E i, j \in 1..Len(store) :
        /\ i < j
        /\ store[i].kind = "FromDependencyOf" /\ store[j].kind = "FromDependencyOf"
        /\ store[i].p1 = path[1].p1 /\ store[i].p2 = package /\ version \in store[i].v2
        /\ store[j].p1 = "root" /\ store[j].p2 = package /\ version \in store[j].v2

\* Sequence p is the beginning of sequence q.
IsPrefix(p, q) == Len(p) <= Len(q) /\ \A i \in 1..Len(p) : p[i] = q[i]

\* The steps of the search by what they do to the return value and the stack.
ReturnsFalse == ret = "none" /\ ret' = "false"
ReturnsTrue == ret = "none" /\ ret' = "true"
Resumes == ret = "false" /\ ret' = "none"
Calls == Len(stack') > Len(stack) /\ stack # <<>>

\* C14: the undo of the backtracking is exact and last in, first out. A call
\* that returns false returns with the path it was entered with, and the pop
\* of line 117 then takes away the entry pushed for that call and nothing else,
\* so the caller goes on with the path of its own entry; a call that returns
\* true returns a path that begins with the path it was entered with, as does
\* every call still on the stack; the path changes only by a push or a pop at
\* its end; None leaves an empty path; and the path behind Some is one branch:
\* each entry is about the requirer of the entry before it.
C14_ExactUndo ==
    /\ [](/\ \A k \in 1..Len(stack) : IsPrefix(stack[k].entry, path)
          /\ (spc = "search" /\ ret = "none") =>
                /\ Len(path) = Len(stack) - 1
                /\ stack # <<>> => path = stack[Len(stack)].entry
          /\ (StateDone /\ sresult = "none") => path = <<>>
          /\ (StateDone /\ sresult = "some") =>
                /\ path # <<>> => path[1].p2 = package /\ version \in path[1].v2
                /\ \A i \in 2..Len(path) : path[i].p2 = path[i - 1].p1)
    /\ [][/\ \/ path' = path
             \/ \E e \in {PathEntry(r) : r \in {d \in Deps : d.p1 \in DOMAIN solution}} :
                    path' = Append(path, e)
             \/ path # <<>> /\ path' = SubSeq(path, 1, Len(path) - 1)
          /\ ReturnsFalse => (path' = path /\ path = stack[Len(stack)].entry)
          /\ ReturnsTrue => (path' = path /\ IsPrefix(stack[Len(stack)].entry, path'))
          /\ Calls => /\ path' = stack'[Len(stack')].entry
                      /\ Len(path') = Len(path) + 1
                      /\ IsPrefix(path, path')
          /\ Resumes => /\ path' = stack'[Len(stack')].entry
                        /\ Len(path') = Len(path) - 1
                        /\ IsPrefix(path', path)
                        /\ stack'[Len(stack')].i = stack[Len(stack)].i + 1]_vars

\* A chain found after a branch two calls deep was abandoned: record i has a
\* requirer of the queried version, record j a requirer of that requirer which
\* nothing requires, and the later record m is the requirement of Root that is
\* returned; the two entries pushed before are not in the path.
C14_Witness ==
    /\ StateDone
    /\ sresult = "some"
    /\ Len(path) = 1
    /\ \E i, j, m \in 1..Len(store) :
        /\ i < m
        /\ store[i].kind = "FromDependencyOf" /\ store[j].kind = "FromDependencyOf"
        /\ store[i].p2 = package /\ version \in store[i].v2
        /\ store[i].p1 \in DOMAIN solution /\ store[i].p1 # "root"
        /\ store[j].p2 = store[i].p1 /\ solution[store[i].p1] \in store[j].v2
        /\ store[j].p1 \in DOMAIN solution /\ store[j].p1 # "root"
        /\ path[1] = [p1 |-> "root", v1 |-> store[m].v1, p2 |-> package,
                      v2 |-> store[m].v2, version |-> 1]
        /\ store[m].kind = "FromDependencyOf"
        /\ store[m].p1 = "root" /\ store[m].p2 = package

\* The positions of the raw path whose requirer has a name, and the place in
\* the chain of the step made of position i: the named positions after i come
\* before it.
NamedAt == {i \in 1..Len(path) : path[i].p1 \notin {"root", "python"}}
PlaceOf(i) == Cardinality({j \in NamedAt : j >= i})

\* C15: the chain returned by from_state is the raw path in root-to-target
\* order without the steps of nameless packages: every named requirer is kept,
\* in order, with its selected version; neither Root nor another nameless
\* package appears; the chain is as long as the raw path less its nameless
\* requirers; and a nameless requirer does not make the result None, which
\* is returned only by a search that failed with an empty path.
C15_NamelessDropped ==
    /\ (StateDone /\ sresult = "some") =>
        /\ Len(schain) = Len(path) - Cardinality((1..Len(path)) \ NamedAt)
        /\ \A i \in NamedAt :
            /\ schain[PlaceOf(i)].name = path[i].p1
            /\ schain[PlaceOf(i)].version = solution[path[i].p1]
        /\ \A k \in 1..Len(schain) : schain[k].name \notin {"root", "python"}
        /\ path # <<>> => (Len(path) \notin NamedAt /\ path[Len(path)].p1 = "root")
    /\ (spc = "search" /\ ret = "true") => sresult = "running"
    /\ (StateDone /\ sresult = "none") => (ret = "false" /\ path = <<>>)

\* The raw path a@2 <- python <- a@1 <- Root returned as the chain [a==1].
C15_Witness ==
    /\ StateDone /\ sresult = "some"
    /\ package = "a" /\ version = 2
    /\ Len(path) = 3
    /\ path[1].p1 = "python" /\ path[2].p1 = "a" /\ path[3].p1 = "root"
    /\ schain = <<NewStep("a", 1)>>

-----------------------------------------------------------------------------
(* impl Display for DerivationChain *)

\* Text is a sequence of characters. The names and versions a rendered step
\* can have, with the text their own Display writes.
RenderNames == {"A", "B", "x-y"}
RenderVersions == {1, 2}
NameText(n) == CASE n = "A" -> <<"A">> [] n = "B" -> <<"B">> [] n = "x-y" -> <<"x", "-", "y">>
VersionText(v) == CASE v = 1 -> <<"1", ".", "0">> [] v = 2 -> <<"2", ".", "0">>
RenderSteps == {NewStep(n, v) : n \in RenderNames, v \in RenderVersions}

\* Line 166: " -> "
Arrow == <<" ", "-", ">", " ">>
\* Line 168: "{}=={}" of step.name and step.version
StepText(st) == NameText(st.name) \o <<"=", "=">> \o VersionText(st.version)
\* A test that writes the separator before the first step too.
AlwaysArrow(i) == i >= 0

\* Line 165: idx > 0
NeedsArrow(i) == i > 0

InitRenderVars ==
    /\ steps \in SeqsUpTo(RenderSteps, MaxChain)
    /\ idx = 0
    /\ out = <<>>
    /\ rpc = "fmt"

\* Lines 164-169: one iteration of the loop over self.0.iter().enumerate().
FmtStep ==
    /\ rpc = "fmt"
    /\ idx < Len(steps)
    /\ out' = out \o (IF NeedsArrow(idx) THEN Arrow ELSE <<>>) \o StepText(steps[idx + 1])
    /\ idx' = idx + 1
    /\ UNCHANGED <<steps, rpc>>

\* Line 170: the loop is over: Ok(()).
FmtDone ==
    /\ rpc = "fmt"
    /\ idx = Len(steps)
    /\ rpc' = "done"
    /\ UNCHANGED <<steps, idx, out>>

NextRender ==
    \/ FmtStep /\ UNCHANGED <<gvars, svars>>
    \/ FmtDone /\ UNCHANGED <<gvars, svars>>

-----------------------------------------------------------------------------
(* Properties of Display *)

\* The texts of the steps joined by the separator, step by step from the front.
RECURSIVE Joined(_)
Joined(c) ==
    IF c = <<>> THEN <<>>
    ELSE IF Len(c) = 1 THEN StepText(c[1])
    ELSE StepText(c[1]) \o <<" ", "-", ">", " ">> \o Joined(Tail(c))

\* The positions of text t at which the separator starts.
ArrowsIn(t) ==
    {i \in 1..(Len(t) - 3) : SubSeq(t, i, i + 3) = <<" ", "-", ">", " ">>}

\* C10: a rendered chain is its steps in order, each as name==version, joined
\* by " -> ": n >= 1 steps hold n - 1 separators, none leading or trailing, one
\* step renders alone and the empty chain renders as the empty text.
C10_Rendering ==
    rpc = "done" =>
        /\ out = Joined(steps)
        /\ Len(steps) >= 1 => Cardinality(ArrowsIn(out)) = Len(steps) - 1
        /\ 1 \notin ArrowsIn(out) /\ (Len(out) - 3) \notin ArrowsIn(out)
        /\ Len(steps) = 1 =>
            out = NameText(steps[1].name) \o <<"=", "=">> \o VersionText(steps[1].version)
        /\ Len(steps) = 0 => out = <<>>

\* [A==1.0, B==2.0] rendered as "A==1.0 -> B==2.0".
C10_Witness ==
    /\ rpc = "done"
    /\ steps = <<NewStep("A", 1), NewStep("B", 2)>>
    /\ out = <<"A", "=", "=", "1", ".", "0", " ", "-", ">", " ", "B", "=", "=", "2", ".", "0">>

-----------------------------------------------------------------------------
(* Idle values of the other computations' variables *)

SIdle ==
    /\ store = <<>>
    /\ solution = <<>>
    /\ package = "root"
    /\ version = 1
    /\ spc = "idle"
    /\ stack = <<>>
    /\ ret = "none"
    /\ path = <<>>
    /\ sresult = "idle"
    /\ schain = <<>>

RIdle ==
    /\ steps = <<>>
    /\ idx = 0
    /\ out = <<>>
    /\ rpc = "idle"

InitGraph == InitGraphVars /\ SIdle /\ RIdle

SpecGraph == InitGraph /\ [][NextGraph]_vars

InitState == GIdle /\ InitStateVars /\ RIdle

SpecState == InitState /\ [][NextState]_vars

InitRender == GIdle /\ SIdle /\ InitRenderVars

SpecRender == InitRender /\ [][NextRender]_vars


====
